---------------------------- MODULE Spec2Model ----------------------------
(***************************************************************************)
(* Model of corpusbuilder/news_crawler.py: NewsArchiveCrawler (archive     *)
(* base URL generation, pagination walk, next-page resolution) and         *)
(* NewsArticleCrawler (article processing, admission of new URLs, drain).  *)
(*                                                                         *)
(* Strings are sequences of character codes (ASCII), so that formatting,   *)
(* concatenation and Python's string ordering are computed, not assumed.   *)
(* An optional value (None or a value) is a sequence of length 0 or 1.     *)
(* A date is the number of days since Epoch (2019-12-30); DateOf gives     *)
(* its year, month and day.                                                *)
(***************************************************************************)
EXTENDS Integers, Sequences, FiniteSets, TLC

VARIABLES
    settings,                    \* self._settings (never written)
    known_article_urls,          \* NewsArchiveCrawler.known_article_urls
    good_urls,                   \* NewsArchiveCrawler.good_urls
    problematic_urls,            \* NewsArchiveCrawler.problematic_urls
    good_article_urls,           \* NewsArticleCrawler.good_article_urls
    problematic_article_urls,    \* NewsArticleCrawler.problematic_article_urls
    new_urls,                    \* NewsArticleCrawler._new_urls
    pc,                          \* position of the run
    archive_page_urls,           \* url_iterator: the list of base URLs
    base_idx,                    \* url_iterator: index of the base URL being walked
    archive_page_next_page_url,  \* walker: next page to fetch (optional)
    page_num,                    \* walker: page counter
    article_urls,                \* walker: article URLs of the page still to be yielded
    it_urls,                     \* download_gathered_new_urls: snapshot being processed
    site,                        \* the archive pages whose content is fixed: their extractor answers
    orphans,                     \* the article URLs of the site that no archive page lists (never written)
    arch_fetches,                \* history: number of download_url calls per archive page URL
    art_fetches,                 \* history: number of download_url calls per article URL
    walk_log,                    \* history: page URLs fetched in the current walk, in order
    walk_good,                   \* history: every fetch of the current walk succeeded and listed an article URL
    last_page,                   \* history: outcome of the last archive page fetch
    last,                        \* history: outcome of the last process_urls iteration (until the walker is resumed)
    discovered,                  \* history: the URLs the walk has yielded or that were added to _new_urls
    drain_calls                  \* number of calls of download_gathered_new_urls

vars == <<settings, known_article_urls, good_urls, problematic_urls, good_article_urls,
          problematic_article_urls, new_urls, pc, archive_page_urls, base_idx,
          archive_page_next_page_url, page_num, article_urls, it_urls, site, orphans,
          arch_fetches, art_fetches, walk_log, walk_good, last_page, last, discovered,
          drain_calls>>

-----------------------------------------------------------------------------
(* Bounds of the model *)

\* dates of the generator specification range over 0..MaxDay (days since Epoch)
MaxDay == 33
\* dates of a crawl range over 0..MaxCrawlDay
MaxCrawlDay == 1
\* the site has the pagenum pages base+0 .. base+MaxSitePage of every base URL
MaxSitePage == 2
\* max_pagenum is None or in 1..MaxMaxPagenum
MaxMaxPagenum == 3
\* min_pagenum is in 0..MaxMinPagenum
MaxMinPagenum == 1
\* same_article_url_threshold is in 0..MaxThreshold
MaxThreshold == 1
\* an archive page lists at most MaxArticlesPerPage article URLs
MaxArticlesPerPage == 1
\* an article links to at most MaxLinks URLs
MaxLinks == 1
\* download_gathered_new_urls is called at most MaxDrainCalls times
MaxDrainCalls == 2
\* the page counter and the log of a walk stop at HistoryCap, which no walk
\* without next-page links reaches: it ends at the page base+(MaxSitePage+1)
HistoryCap == MaxSitePage + 4

-----------------------------------------------------------------------------
(* Strings *)

None == << >>
Some(x) == <<x>>
IsNone(o) == o = << >>
The(o) == o[1]

Min(a, b) == IF a < b THEN a ELSE b
Max(a, b) == IF a > b THEN a ELSE b

Range(s) == {s[i] : i \in DOMAIN s}

\* the decimal digits of n >= 0, as character codes
RECURSIVE Digits(_)
Digits(n) == IF n < 10 THEN <<48 + n>> ELSE Digits(n \div 10) \o <<48 + (n % 10)>>

\* '{0:0wd}'.format(n) for n >= 0: zero-padded to at least w characters
RECURSIVE ZeroPad(_, _)
ZeroPad(s, w) == IF Len(s) >= w THEN s ELSE ZeroPad(<<48>> \o s, w)

\* '{0}'.format(n) for any integer n
FormatInt(n) == IF n < 0 THEN <<45>> \o Digits(0 - n) ELSE Digits(n)

\* str.replace(old, new): every non-overlapping occurrence, left to right
RECURSIVE Replace(_, _, _)
Replace(s, old, new) ==
    IF Len(s) < Len(old) THEN s
    ELSE IF SubSeq(s, 1, Len(old)) = old
         THEN new \o Replace(SubSeq(s, Len(old) + 1, Len(s)), old, new)
         ELSE <<Head(s)>> \o Replace(Tail(s), old, new)

\* Python's str.__lt__: lexicographic by code point, a proper prefix is smaller
RECURSIVE StrLess(_, _)
StrLess(s, t) ==
    IF t = << >> THEN FALSE
    ELSE IF s = << >> THEN TRUE
    ELSE IF Head(s) # Head(t) THEN Head(s) < Head(t)
    ELSE StrLess(Tail(s), Tail(t))

\* the elements of the set S of strings as an ascending list
RECURSIVE SortedList(_)
SortedList(S) ==
    IF S = {} THEN << >>
    ELSE LET m == CHOOSE x \in S : \A y \in S \ {x} : StrLess(x, y)
         IN  <<m>> \o SortedList(S \ {m})

Reverse(s) == [i \in 1..Len(s) |-> s[Len(s) + 1 - i]]

-----------------------------------------------------------------------------
(* Dates *)

IsLeap(y) == (y % 4 = 0 /\ y % 100 # 0) \/ y % 400 = 0

DaysInMonth(y, m) ==
    IF m = 2 THEN (IF IsLeap(y) THEN 29 ELSE 28)
    ELSE IF m \in {4, 6, 9, 11} THEN 30 ELSE 31

NextDay(d) ==
    IF d.day < DaysInMonth(d.year, d.month) THEN [d EXCEPT !.day = d.day + 1]
    ELSE IF d.month < 12 THEN [year |-> d.year, month |-> d.month + 1, day |-> 1]
    ELSE [year |-> d.year + 1, month |-> 1, day |-> 1]

Epoch == [year |-> 2019, month |-> 12, day |-> 30]

\* date_from + timedelta(days=k), for a date given as days since Epoch
RECURSIVE DateOf(_)
DateOf(k) == IF k = 0 THEN Epoch ELSE NextDay(DateOf(k - 1))

-----------------------------------------------------------------------------
(* NewsArchiveCrawler: generation of the archive base URLs *)

YearTag  == <<35, 121, 101, 97, 114>>          \* "#year"
MonthTag == <<35, 109, 111, 110, 116, 104>>    \* "#month"
DayTag   == <<35, 100, 97, 121>>               \* "#day"

\* _gen_archive_page_url_from_date(curr_date, url_format)
GenArchivePageUrlFromDate(curr_date, url_format) ==
    Replace(Replace(Replace(url_format,
                            YearTag, ZeroPad(Digits(curr_date.year), 4)),
                    MonthTag, ZeroPad(Digits(curr_date.month), 2)),
            DayTag, ZeroPad(Digits(curr_date.day), 2))

\* a variant of DayRange that leaves out the last day: range((date_until - date_from).days)
DayRangeWithoutLastDay(date_from, date_until) == 0..(date_until - date_from - 1)

\* range((date_until - date_from).days + 1)
DayRange(date_from, date_until) == 0..(date_until - date_from)

\* set(... for curr_day in range(...)): the generated URLs, made unique
UniqueDateUrls(s) ==
    {GenArchivePageUrlFromDate(DateOf(s.date_from + curr_day), s.archive_url_format) :
        curr_day \in DayRange(s.date_from, s.date_until)}

\* list.sort(reverse=go_reverse_in_archive)
SortUrls(S, reverse) == IF reverse THEN Reverse(SortedList(S)) ELSE SortedList(S)

\* url_iterator, up to the loop over the base URLs: the list, empty when it raises
ArchivePageUrls(s) ==
    LET by_date == IF s.archive_page_urls_by_date
                   THEN SortUrls(UniqueDateUrls(s), s.go_reverse_in_archive)
                   ELSE << >>
    IN  IF s.archive_page_urls_by_id /\ Len(by_date) = 0
        THEN by_date \o <<s.archive_url_format>>
        ELSE by_date

-----------------------------------------------------------------------------
(* The inputs: settings, known URLs and the site *)

\* the article URLs the archive pages list: "a", "b"
ArticleURLs == {<<97>>, <<98>>}
\* an article URL no archive page lists: "c"
OrphanURL == <<99>>
\* a second article URL no archive page lists: "d"
OtherOrphanURL == <<100>>
\* an archive page that is reachable through next-page links only: "p"
LinkedPage == <<112>>

\* archive_url_format of a crawl: "#day", "x"
CrawlFormats == {DayTag, <<120>>}
\* archive_url_format of the generator specification:
\* "x/#year/#month", "#year#month#day", "#month-#day", "#day", "x"
GenFormats ==
    { <<120, 47>> \o YearTag \o <<47>> \o MonthTag,
      YearTag \o MonthTag \o DayTag,
      MonthTag \o <<45>> \o DayTag,
      DayTag,
      <<120>> }

SeqsUpTo(S, n) == UNION {[1..k -> S] : k \in 0..n}
SubsetsUpTo(S, n) == {T \in SUBSET S : Cardinality(T) <= n}
Optional(S) == {None} \cup {Some(x) : x \in S}

AllSettings ==
    [ archive_page_urls_by_date  : BOOLEAN,
      archive_page_urls_by_id    : BOOLEAN,
      date_from                  : 0..MaxCrawlDay,
      date_until                 : 0..MaxCrawlDay,
      archive_url_format         : CrawlFormats,
      go_reverse_in_archive      : BOOLEAN,
      min_pagenum                : 0..MaxMinPagenum,
      max_pagenum                : Optional(1..MaxMaxPagenum),
      next_url_by_regex          : BOOLEAN,
      next_url_by_pagenum        : BOOLEAN,
      same_article_url_threshold : 0..MaxThreshold,
      create_corpus              : BOOLEAN ]

\* the settings under which _extract_next_page_url reaches its pagenum condition
ReadsPagenum(s) == ~s.next_url_by_regex /\ s.next_url_by_pagenum
\* the settings under which a walk may have more than one page
Paginates(s) == s.next_url_by_regex \/ s.next_url_by_pagenum

\* The settings of a crawl: three families, each varying one group of settings.
\*  - generation of the base URLs (date mode, id mode, neither), one page per base URL;
\*  - pagination (regex, pagenum, both, with the pagenum settings) from one id-mode base URL;
\*  - date window and create_corpus, one page from one id-mode base URL.
\* A setting the code does not read under the others keeps one value.
CrawlSettings ==
    {s \in AllSettings :
        /\ s.archive_page_urls_by_date =>
              ~Paginates(s) /\ s.create_corpus
        /\ ~s.archive_page_urls_by_date =>
              ~s.go_reverse_in_archive /\ s.archive_url_format = <<120>>
        /\ (~s.archive_page_urls_by_date /\ ~s.archive_page_urls_by_id) =>
              ~Paginates(s) /\ s.create_corpus /\ s.date_from = 0 /\ s.date_until = MaxCrawlDay
        /\ Paginates(s) =>
              s.create_corpus /\ s.date_from = 0 /\ s.date_until = MaxCrawlDay
        /\ ~ReadsPagenum(s) =>
              /\ s.min_pagenum = 0
              /\ s.same_article_url_threshold = 0
              /\ s.max_pagenum \in {None, Some(1)}
        /\ ~s.next_url_by_pagenum => s.max_pagenum = None }

\* known_article_urls of a crawl; the threshold is read only when it is not empty
KnownSets(s) ==
    IF ReadsPagenum(s)
    THEN {K \in SUBSET ArticleURLs : K = {} => s.same_article_url_threshold = 0}
    ELSE IF s.next_url_by_regex \/ s.archive_page_urls_by_date THEN {{}}
    ELSE {{}, {<<97>>}}

\* the pagenum pages of the base URLs
PagenumPages(bases) == {b \o FormatInt(n) : b \in Range(bases), n \in 0..MaxSitePage}

\* the pages of the (finite) site: the base URLs, their pagenum pages, the linked
\* page; the download of any other URL fails
SitePages == Range(archive_page_urls) \cup {LinkedPage} \cup PagenumPages(archive_page_urls)

\* the pages a next-page link may name
NextPageLinksOf(bases) == Range(bases) \cup {LinkedPage}
NextPageLinks == NextPageLinksOf(archive_page_urls)

\* the URLs an article may link to
LinkURLs == ArticleURLs \cup orphans \cup Range(archive_page_urls)

\* extract_article_date: None, the first day, or a day after every date_until
ArticleDates == Optional({0, MaxCrawlDay + 1})

Count(bag, u) == IF u \in DOMAIN bag THEN bag[u] ELSE 0
\* a call more: the history counts once, or twice for twice and more
Inc(bag, u) == IF u \in DOMAIN bag THEN [bag EXCEPT ![u] = 2] ELSE bag @@ (u :> 1)

NoPage == [url |-> None, ok |-> FALSE, urls |-> << >>, next |-> None]
NoArticle == [url |-> None, outcome |-> "none", date |-> None, links |-> {}, converted |-> FALSE]

-----------------------------------------------------------------------------
(* Construction *)

InitState(s, known, fixed, orph) ==
    /\ settings = s
    /\ known_article_urls = known
    /\ good_urls = {}
    /\ problematic_urls = {}
    /\ good_article_urls = {}
    /\ problematic_article_urls = {}
    /\ new_urls = {}
    /\ pc = "start"
    /\ archive_page_urls = << >>
    /\ base_idx = 0
    /\ archive_page_next_page_url = None
    /\ page_num = 0
    /\ article_urls = << >>
    /\ it_urls = {}
    /\ site = fixed
    /\ orphans = orph
    /\ arch_fetches = << >>
    /\ art_fetches = << >>
    /\ walk_log = << >>
    /\ walk_good = TRUE
    /\ last_page = NoPage
    /\ last = NoArticle
    /\ discovered = {}
    /\ drain_calls = 0

\* the answers the extractor may give on a page (extract_next_page_url is asked
\* only with next_url_by_regex)
AnyAnswers(use_regex, links) ==
    [ urls : SeqsUpTo(ArticleURLs, MaxArticlesPerPage),
      next : IF use_regex THEN Optional(links) ELSE {None} ]

\* the pages that next-page links lead to from the pages of from, in at most n steps
RECURSIVE LinkedFrom(_, _, _)
LinkedFrom(f, from, n) ==
    IF n = 0 THEN from
    ELSE LinkedFrom(f, from \cup {The(f[pg].next) : pg \in {q \in from : ~IsNone(f[q].next)}},
                    n - 1)

\* the sites all of whose pages that a walk can reach under the settings have a
\* fixed content; a page that no walk reaches (no chain of next-page links leads
\* to it from a base URL) is never downloaded, and is left without content
FixedSites(s) ==
    LET bases == ArchivePageUrls(s)
        reach == IF s.next_url_by_regex
                 THEN NextPageLinksOf(bases)
                 ELSE Range(bases) \cup PagenumPages(bases)
    IN  {f \in [reach -> AnyAnswers(s.next_url_by_regex, NextPageLinksOf(bases))] :
            s.next_url_by_regex =>
                \A pg \in reach \ LinkedFrom(f, Range(bases), Cardinality(reach)) :
                    f[pg] = [urls |-> << >>, next |-> None]}

\* The site of a crawl. Next-page links may lead a walk back to a page, so with
\* next_url_by_regex the content of the pages is fixed; the pages of the other
\* crawls, each fetched once, may answer anything.
Sites(s) == IF s.next_url_by_regex THEN FixedSites(s) ELSE {<< >>}

Init ==
    \E s \in CrawlSettings : \E known \in KnownSets(s) : \E fixed \in Sites(s) :
        InitState(s, known, fixed, {OrphanURL})

-----------------------------------------------------------------------------
(* NewsArchiveCrawler *)

\* url_iterator, lines 58-78: build the list of base URLs, raise if it is empty
UrlIterator ==
    /\ pc = "start"
    /\ archive_page_urls' = ArchivePageUrls(settings)
    /\ pc' = IF Len(archive_page_urls') = 0 THEN "error" ELSE "archive"
    /\ UNCHANGED <<settings, known_article_urls, good_urls, problematic_urls,
                   good_article_urls, problematic_article_urls, new_urls, base_idx,
                   archive_page_next_page_url, page_num, article_urls, it_urls, site, orphans,
                   arch_fetches, art_fetches, walk_log, walk_good, last_page, last, discovered,
                   drain_calls>>

\* len(self.known_article_urls.intersection(article_urls))
KnownOverlap(urls) == Cardinality(known_article_urls \cap Range(urls))

\* a variant of PagenumContinues that compares the overlap >= same_article_url_threshold
PagenumContinuesAtThreshold(urls, pnum, max_pagenum, use_pagenum, threshold) ==
    /\ use_pagenum
    /\ Len(urls) > 0
    /\ (Cardinality(known_article_urls) = 0 \/ KnownOverlap(urls) >= threshold)
    /\ (IsNone(max_pagenum) \/ pnum < The(max_pagenum))

\* a variant of PagenumContinues that compares page_num <= max_pagenum
PagenumContinuesUpToMax(urls, pnum, max_pagenum, use_pagenum, threshold) ==
    /\ use_pagenum
    /\ Len(urls) > 0
    /\ (Cardinality(known_article_urls) = 0 \/ KnownOverlap(urls) > threshold)
    /\ (IsNone(max_pagenum) \/ pnum <= The(max_pagenum))

\* _extract_next_page_url, method #2: the condition of the pagenum branch
PagenumContinues(urls, pnum, max_pagenum, use_pagenum, threshold) ==
    /\ use_pagenum
    /\ Len(urls) > 0
    /\ (Cardinality(known_article_urls) = 0 \/ KnownOverlap(urls) > threshold)
    /\ (IsNone(max_pagenum) \/ pnum < The(max_pagenum))

\* a variant of ExtractNextPageUrl that falls through to the pagenum branch when
\* the extractor finds no next-page link
ExtractNextPageUrlFallsThrough(regex_next, base, urls, pnum, max_pagenum, use_regex, use_pagenum, threshold) ==
    IF use_regex /\ ~IsNone(regex_next) THEN regex_next
    ELSE IF PagenumContinues(urls, pnum, max_pagenum, use_pagenum, threshold)
         THEN Some(base \o FormatInt(pnum))
         ELSE None

\* _extract_next_page_url: regex_next is the answer of extract_next_page_url on the page
ExtractNextPageUrl(regex_next, base, urls, pnum, max_pagenum, use_regex, use_pagenum, threshold) ==
    IF use_regex THEN regex_next
    ELSE IF PagenumContinues(urls, pnum, max_pagenum, use_pagenum, threshold)
         THEN Some(base \o FormatInt(pnum))
         ELSE None

\* the answers of the extractor on the page fetched: those of the site if the
\* content of the page is fixed, any otherwise
PageAnswers(url) ==
    IF url \in DOMAIN site THEN {site[url]}
    ELSE AnyAnswers(settings.next_url_by_regex, NextPageLinks)

\* a variant of NextPageNum that counts in steps of two
NextPageNumSkips(n) == Min(n + 2, HistoryCap)

\* line 119 (page_num += 1): the page counter, which the model stops at HistoryCap
NextPageNum(n) == Min(n + 1, HistoryCap)

LogFetch(log, url) == IF Len(log) < HistoryCap THEN Append(log, url) ELSE log

\* url_iterator line 80-81 and lines 99-105: start the walk of the next base URL
StartWalk ==
    /\ pc = "archive"
    /\ article_urls = << >>
    /\ IsNone(archive_page_next_page_url)
    /\ base_idx < Len(archive_page_urls)
    /\ base_idx' = base_idx + 1
    /\ page_num' = settings.min_pagenum
    /\ archive_page_next_page_url' = Some(archive_page_urls[base_idx'])
    /\ walk_log' = << >>
    /\ walk_good' = TRUE
    /\ last_page' = NoPage
    /\ last' = NoArticle
    /\ UNCHANGED <<settings, known_article_urls, good_urls, problematic_urls,
                   good_article_urls, problematic_article_urls, new_urls, pc,
                   archive_page_urls, article_urls, it_urls, site, orphans,
                   arch_fetches, art_fetches, discovered, drain_calls>>

\* a variant of DownloadFailed that leaves archive_page_next_page_url as it is
DownloadFailedKeepsUrl(url, problematic) ==
    [problematic |-> problematic \cup {url}, next |-> Some(url)]

\* lines 116-118: the download failed
DownloadFailed(url, problematic) ==
    [problematic |-> problematic \cup {url}, next |-> None]

\* lines 106-119: one iteration of the walk, up to the yield of the article URLs
FetchArchivePage ==
    /\ pc = "archive"
    /\ article_urls = << >>
    /\ ~IsNone(archive_page_next_page_url)
    /\ last' = NoArticle
    /\ LET url  == The(archive_page_next_page_url)
           base == archive_page_urls[base_idx]
       IN  /\ arch_fetches' = Inc(arch_fetches, url)
           /\ walk_log' = LogFetch(walk_log, url)
           /\ page_num' = NextPageNum(page_num)
           /\ \E ok \in {FALSE} \cup {url \in SitePages} :
                IF ok
                THEN \E ans \in PageAnswers(url) :
                        /\ good_urls' = good_urls \cup {url}
                        /\ walk_good' = (walk_good /\ Len(ans.urls) > 0)
                        /\ article_urls' = ans.urls
                        /\ discovered' = discovered \cup Range(ans.urls)
                        /\ archive_page_next_page_url' =
                               ExtractNextPageUrl(ans.next, base, ans.urls, page_num,
                                                  settings.max_pagenum,
                                                  settings.next_url_by_regex,
                                                  settings.next_url_by_pagenum,
                                                  settings.same_article_url_threshold)
                        /\ last_page' = [url |-> Some(url), ok |-> TRUE,
                                         urls |-> ans.urls, next |-> ans.next]
                        /\ UNCHANGED problematic_urls
                ELSE /\ problematic_urls' = DownloadFailed(url, problematic_urls).problematic
                     /\ archive_page_next_page_url' = DownloadFailed(url, problematic_urls).next
                     /\ article_urls' = << >>
                     /\ last_page' = [NoPage EXCEPT !.url = Some(url)]
                     /\ walk_good' = FALSE
                     /\ UNCHANGED <<good_urls, discovered>>
    /\ UNCHANGED <<settings, known_article_urls, good_article_urls,
                   problematic_article_urls, new_urls, pc, archive_page_urls, base_idx,
                   it_urls, site, orphans, art_fetches, drain_calls>>

-----------------------------------------------------------------------------
(* NewsArticleCrawler *)

\* a variant of IsDuplicate that also skips the URLs of known_article_urls
IsDuplicateOrKnown(url) ==
    url \in good_article_urls \/ url \in problematic_article_urls \/ url \in known_article_urls

\* a variant of IsDuplicate that forgets the failed downloads
IsDuplicateOfGoodOnly(url) == url \in good_article_urls

\* process_urls, lines 189-190: the duplicate guard
IsDuplicate(url) == url \in good_article_urls \/ url \in problematic_article_urls

\* process_urls, lines 208-209
ArticleDateIsOk(article_date) ==
    /\ ~IsNone(article_date)
    /\ settings.date_from <= The(article_date)
    /\ The(article_date) <= settings.date_until

\* a variant of CallsConverter that forgets the date filter
CallsConverterWithoutDate(article_date) == settings.create_corpus

\* process_urls, line 216: whether article_to_corpus is called
CallsConverter(article_date) == ArticleDateIsOk(article_date) /\ settings.create_corpus

\* a variant of IsUnclassified that forgets known_article_urls
IsUnclassifiedIgnoringKnown(url, good) ==
    /\ url \notin good
    /\ url \notin problematic_article_urls
    /\ url \notin good_urls
    /\ url \notin problematic_urls

\* a variant of IsUnclassified that forgets the sets of the archive crawler
IsUnclassifiedIgnoringArchive(url, good) ==
    /\ url \notin good
    /\ url \notin problematic_article_urls
    /\ url \notin known_article_urls

\* process_urls, lines 224-228, and download_gathered_new_urls, lines 238-242:
\* the URL is in none of the five sets (good is good_article_urls at that moment)
IsUnclassified(url, good) ==
    /\ url \notin good
    /\ url \notin problematic_article_urls
    /\ url \notin good_urls
    /\ url \notin problematic_urls
    /\ url \notin known_article_urls

\* process_urls, lines 223-229: the links that are added to _new_urls
AdmittedLinks(links, good) == {l \in links : IsUnclassified(l, good)}

\* process_urls, lines 188-229: the body of the loop for one url
ProcessUrl(url) ==
    IF IsDuplicate(url)
    THEN /\ last' = [NoArticle EXCEPT !.url = Some(url), !.outcome = "duplicate"]
         /\ UNCHANGED <<good_article_urls, problematic_article_urls, new_urls, art_fetches,
                        discovered>>
    ELSE /\ art_fetches' = Inc(art_fetches, url)
         /\ \E ok \in BOOLEAN :
              IF ~ok
              THEN /\ problematic_article_urls' = problematic_article_urls \cup {url}
                   /\ last' = [NoArticle EXCEPT !.url = Some(url), !.outcome = "failed"]
                   /\ UNCHANGED <<good_article_urls, new_urls, discovered>>
              ELSE \E article_date \in ArticleDates, links \in SubsetsUpTo(LinkURLs, MaxLinks) :
                   /\ good_article_urls' = good_article_urls \cup {url}
                   /\ new_urls' = new_urls \cup AdmittedLinks(links, good_article_urls')
                   /\ discovered' = discovered \cup AdmittedLinks(links, good_article_urls')
                   /\ last' = [url |-> Some(url), outcome |-> "good", date |-> article_date,
                               links |-> links, converted |-> CallsConverter(article_date)]
                   /\ UNCHANGED problematic_article_urls

\* process_urls over url_iterator: the next article URL the walk yields
ProcessArchiveUrl ==
    /\ pc = "archive"
    /\ article_urls # << >>
    /\ ProcessUrl(Head(article_urls))
    /\ article_urls' = Tail(article_urls)
    /\ UNCHANGED <<settings, known_article_urls, good_urls, problematic_urls, pc,
                   archive_page_urls, base_idx, archive_page_next_page_url, page_num,
                   it_urls, site, orphans, arch_fetches, walk_log, walk_good, last_page, drain_calls>>

\* a variant of IteratorExhausted that ends the iterator with the first walk
IteratorExhaustedAfterFirstWalk ==
    /\ article_urls = << >>
    /\ IsNone(archive_page_next_page_url)
    /\ base_idx >= 1

\* url_iterator, lines 80-81: the walk of the last base URL has stopped and its
\* last article URL is yielded and processed
IteratorExhausted ==
    /\ article_urls = << >>
    /\ IsNone(archive_page_next_page_url)
    /\ base_idx = Len(archive_page_urls)

\* download_and_extract_all_articles, lines 232-233: the iterator is exhausted,
\* process_urls returns (the locals of both are gone, and so is what the history
\* says of the last walk and the last url) and download_gathered_new_urls is called
ArchiveDone ==
    /\ pc = "archive"
    /\ IteratorExhausted
    /\ pc' = "recheck"
    /\ drain_calls' = drain_calls + 1
    /\ page_num' = 0
    /\ walk_log' = << >>
    /\ walk_good' = TRUE
    /\ last_page' = NoPage
    /\ last' = NoArticle
    /\ UNCHANGED <<settings, known_article_urls, good_urls, problematic_urls,
                   good_article_urls, problematic_article_urls, new_urls,
                   archive_page_urls, base_idx, archive_page_next_page_url,
                   article_urls, it_urls, site, orphans, arch_fetches, art_fetches, discovered>>

\* a variant of RecheckedUrls with the condition of the filter inverted
RecheckedUrlsInverted == {url \in new_urls : ~IsUnclassified(url, good_article_urls)}

\* download_gathered_new_urls, lines 237-242: the recheck of the new URLs
RecheckedUrls == {url \in new_urls : IsUnclassified(url, good_article_urls)}

\* a variant of DrainContinues that compares len(...) >= 0
DrainContinuesOnEmpty(urls) == Cardinality(urls) >= 0

\* download_gathered_new_urls, line 243: the condition of the loop
DrainContinues(urls) == Cardinality(urls) > 0

\* download_gathered_new_urls, lines 237-243: recheck, then the first test of the loop
Recheck ==
    /\ pc = "recheck"
    /\ new_urls' = RecheckedUrls
    /\ pc' = IF DrainContinues(new_urls') THEN "drain" ELSE "done"
    /\ UNCHANGED <<settings, known_article_urls, good_urls, problematic_urls,
                   good_article_urls, problematic_article_urls, archive_page_urls,
                   base_idx, archive_page_next_page_url, page_num, article_urls, it_urls,
                   site, orphans, arch_fetches, art_fetches, walk_log, walk_good, last_page, last, discovered,
                   drain_calls>>

\* a variant of Snapshot that forgets to clear _new_urls
SnapshotWithoutClear(urls) == [taken |-> urls, left |-> urls]

\* download_gathered_new_urls, line 246: new_urls, self._new_urls = self._new_urls, set()
Snapshot(urls) == [taken |-> urls, left |-> {}]

\* download_gathered_new_urls, lines 244-246: log, snapshot and clear
DrainSnapshot ==
    /\ pc = "drain"
    /\ it_urls' = Snapshot(new_urls).taken
    /\ new_urls' = Snapshot(new_urls).left
    /\ pc' = "drain_process"
    /\ UNCHANGED <<settings, known_article_urls, good_urls, problematic_urls,
                   good_article_urls, problematic_article_urls, archive_page_urls,
                   base_idx, archive_page_next_page_url, page_num, article_urls,
                   site, orphans, arch_fetches, art_fetches, walk_log, walk_good, last_page, last, discovered,
                   drain_calls>>

\* download_gathered_new_urls, line 247: process_urls over the snapshot, one url
\* (a set is iterated in no particular order)
DrainProcess ==
    /\ pc = "drain_process"
    /\ \E url \in it_urls :
         /\ ProcessUrl(url)
         /\ it_urls' = it_urls \ {url}
    /\ UNCHANGED <<settings, known_article_urls, good_urls, problematic_urls, pc,
                   archive_page_urls, base_idx, archive_page_next_page_url, page_num,
                   article_urls, site, orphans, arch_fetches, walk_log, walk_good, last_page, drain_calls>>

\* download_gathered_new_urls, line 243: process_urls has returned; the test of
\* the loop after an iteration
DrainLoop ==
    /\ pc = "drain_process"
    /\ it_urls = {}
    /\ pc' = IF DrainContinues(new_urls) THEN "drain" ELSE "done"
    /\ last' = NoArticle
    /\ UNCHANGED <<settings, known_article_urls, good_urls, problematic_urls,
                   good_article_urls, problematic_article_urls, new_urls,
                   archive_page_urls, base_idx, archive_page_next_page_url, page_num,
                   article_urls, it_urls, site, orphans, arch_fetches, art_fetches, walk_log, walk_good,
                   last_page, discovered, drain_calls>>

\* a further call of download_gathered_new_urls after the run
DrainAgain ==
    /\ pc = "done"
    /\ drain_calls < MaxDrainCalls
    /\ drain_calls' = drain_calls + 1
    /\ pc' = "recheck"
    /\ UNCHANGED <<settings, known_article_urls, good_urls, problematic_urls,
                   good_article_urls, problematic_article_urls, new_urls,
                   archive_page_urls, base_idx, archive_page_next_page_url, page_num,
                   article_urls, it_urls, site, orphans, arch_fetches, art_fetches, walk_log, walk_good,
                   last_page, last, discovered>>

-----------------------------------------------------------------------------
(* Specifications *)

Next ==
    \/ UrlIterator
    \/ StartWalk
    \/ FetchArchivePage
    \/ ProcessArchiveUrl
    \/ ArchiveDone
    \/ Recheck
    \/ DrainSnapshot
    \/ DrainProcess
    \/ DrainLoop
    \/ DrainAgain

Spec == Init /\ [][Next]_vars

\* The crawls of a site all of whose pages have a fixed content, paginating from
\* one id-mode base URL. A download may still fail.
FixedSiteSettings ==
    {s \in CrawlSettings :
        s.archive_page_urls_by_id /\ ~s.archive_page_urls_by_date /\ Paginates(s)}

InitFixedSite ==
    \E s \in FixedSiteSettings : \E fixed \in FixedSites(s) : InitState(s, {}, fixed, {OrphanURL})

\* the run never stops while a step of it is left to take
FixedSiteSpec == InitFixedSite /\ [][Next]_vars /\ WF_vars(Next)

\* The crawls in which new URLs are gathered and drained: an archive of at most
\* two pages (the base URL and its pagenum page 0) of a site with two article
\* URLs that no archive page lists.
DrainSettings ==
    {s \in CrawlSettings :
        /\ s.archive_page_urls_by_id /\ ~s.archive_page_urls_by_date
        /\ ReadsPagenum(s)
        /\ s.min_pagenum = 0 /\ s.max_pagenum = Some(1)
        /\ s.same_article_url_threshold = 0}

InitDrain ==
    \E s \in DrainSettings : InitState(s, {}, << >>, {OrphanURL, OtherOrphanURL})

\* the run never stops while a step of it is left to take
DrainSpec == InitDrain /\ [][Next]_vars /\ WF_vars(Next)

\* The generator alone, over every date range of 0..MaxDay and every format of GenFormats
GenSettings ==
    [ archive_page_urls_by_date  : {TRUE},
      archive_page_urls_by_id    : BOOLEAN,
      date_from                  : 0..MaxDay,
      date_until                 : 0..MaxDay,
      archive_url_format         : GenFormats,
      go_reverse_in_archive      : BOOLEAN,
      min_pagenum                : {0},
      max_pagenum                : {None},
      next_url_by_regex          : {FALSE},
      next_url_by_pagenum        : {FALSE},
      same_article_url_threshold : {0},
      create_corpus              : {TRUE} ]

InitGen == \E s \in GenSettings : InitState(s, {}, << >>, {OrphanURL})

NextGen == UrlIterator

SpecGen == InitGen /\ [][NextGen]_vars

-----------------------------------------------------------------------------
(* Claims *)

AllClassified ==
    good_article_urls \cup problematic_article_urls \cup good_urls \cup problematic_urls
    \cup known_article_urls

\* C1: the article downloader is asked for every URL at most once in a run, however
\* often the URL is emitted by archive pages or rediscovered through links, and
\* whatever the fetch outcomes are.
C1_ArticleFetchedAtMostOnce == \A u \in DOMAIN art_fetches : art_fetches[u] <= 1

\* an URL that failed before was emitted again and skipped
C1_Witness ==
    /\ last.outcome = "duplicate"
    /\ The(last.url) \in problematic_article_urls
    /\ Count(art_fetches, The(last.url)) = 1

\* C2: the archive downloader is never asked twice for the same page URL, within
\* one walk and across the walks of a run, for every pagination strategy and every
\* answer of the extractor.
C2_ArchivePageFetchedAtMostOnce == \A u \in DOMAIN arch_fetches : arch_fetches[u] <= 1

WalkActive == pc = "archive" /\ ~IsNone(archive_page_next_page_url)
WalkStopped == IsNone(archive_page_next_page_url)

\* C3: on a finite site with fixed content the walk of every base URL eventually
\* stops (the resolver answers stop, or a fetch fails), under every combination of
\* next_url_by_regex, next_url_by_pagenum and max_pagenum.
C3_EveryWalkStops == WalkActive ~> WalkStopped

\* C4: in every reachable state new_urls and known_article_urls are disjoint.
C4_NewDisjointFromKnown == new_urls \cap known_article_urls = {}

\* an article linked to a known URL that nothing else had classified
C4_Witness ==
    /\ last.outcome = "good"
    /\ \E l \in last.links :
         /\ l \in known_article_urls
         /\ l \notin good_article_urls \cup problematic_article_urls
         /\ l \notin good_urls \cup problematic_urls

\* C5: a link extracted from a fetched article is added to new_urls if and only if
\* it is, at that moment, in none of good_article_urls, problematic_article_urls,
\* good_urls, problematic_urls and known_article_urls; nothing else adds to new_urls.
C5_AdmissionRule ==
    [][ /\ good_article_urls' # good_article_urls =>
             new_urls' = new_urls \cup
                 {l \in last'.links :
                     /\ l \notin good_article_urls'
                     /\ l \notin problematic_article_urls'
                     /\ l \notin good_urls'
                     /\ l \notin problematic_urls'
                     /\ l \notin known_article_urls'}
        /\ good_article_urls' = good_article_urls => new_urls' \subseteq new_urls
      ]_vars

\* an article linked to a page of good_urls that is in no other set: it was not added
C5_Witness ==
    /\ last.outcome = "good"
    /\ \E l \in last.links :
         /\ l \in good_urls
         /\ l \notin good_article_urls \cup problematic_article_urls
         /\ l \notin problematic_urls \cup known_article_urls
         /\ l \notin new_urls

C7_DrainIdempotent ==
    [][ /\ (pc = "recheck" /\ new_urls = {}) =>
              /\ pc' = "done"
              /\ UNCHANGED <<good_urls, problematic_urls, good_article_urls,
                             problematic_article_urls, new_urls, known_article_urls,
                             art_fetches, arch_fetches>>
        /\ pc = "done" => new_urls = {} /\ new_urls' = {}
      ]_vars

\* a second drain has returned after a first drain that fetched the orphan article
C7_Witness ==
    /\ pc = "done"
    /\ drain_calls >= 2
    /\ Count(art_fetches, OrphanURL) = 1

\* the page URLs of a full pagenum walk: base, base+m, ..., base+(M-1)
FullWalk(base, m, M) ==
    [i \in 1..Max(1, M - m + 1) |-> IF i = 1 THEN base ELSE base \o FormatInt(m + i - 2)]

\* C8: in pagenum mode (regex off) with min_pagenum = m and max_pagenum = M a walk
\* fetches at most max(1, M - m + 1) pages; when every fetch succeeds, every page
\* lists an article URL and known_article_urls is empty, the finished walk fetched
\* exactly base, base+m, ..., base+(M-1).
C8_PagenumWalkLength ==
    (ReadsPagenum(settings) /\ ~IsNone(settings.max_pagenum) /\ base_idx > 0) =>
        LET m == settings.min_pagenum
            M == The(settings.max_pagenum)
        IN  /\ Len(walk_log) <= Max(1, M - m + 1)
            /\ (WalkStopped /\ walk_log # << >> /\ walk_good /\ known_article_urls = {}) =>
                   walk_log = FullWalk(archive_page_urls[base_idx], m, M)

\* min_pagenum = 1, max_pagenum = 3: the walk stopped after exactly 3 good pages
C8_Witness ==
    /\ ReadsPagenum(settings)
    /\ settings.min_pagenum = 1
    /\ settings.max_pagenum = Some(3)
    /\ known_article_urls = {}
    /\ WalkStopped
    /\ walk_good
    /\ Len(walk_log) = 3

\* C9: with next_url_by_regex the next page is exactly the answer of the extractor
\* on the page just fetched, whatever next_url_by_pagenum, max_pagenum and the
\* article URLs are; a first page whose answer is none is the only page of its walk.
C9_RegexVerbatim ==
    settings.next_url_by_regex =>
        /\ last_page.ok => archive_page_next_page_url = last_page.next
        /\ (last_page.ok /\ IsNone(last_page.next)) => WalkStopped

\* regex and pagenum both on, the first page lists an article URL and has no next
\* link, the pagenum condition holds: the walk stopped after this one page
C9_Witness ==
    /\ settings.next_url_by_regex
    /\ last_page.ok
    /\ Len(walk_log) = 1
    /\ IsNone(last_page.next)
    /\ PagenumContinues(last_page.urls, settings.min_pagenum,
                        settings.max_pagenum, settings.next_url_by_pagenum,
                        settings.same_article_url_threshold)
    /\ WalkStopped

\* Scenario A: "x/#year/#month" over 2020-01-01 .. 2020-01-31
ScenarioA ==
    /\ settings.archive_url_format = <<120, 47>> \o YearTag \o <<47>> \o MonthTag
    /\ settings.date_from = 2
    /\ settings.date_until = 32

\* C10: in date mode the list of base URLs holds each distinct substituted string
\* over the days of [date_from, date_until] exactly once, descending if
\* go_reverse_in_archive and ascending otherwise; a year/month format over the 31
\* days of January 2020 gives the one URL "x/2020/01".
C10_DateModeBaseUrls ==
    (pc # "start" /\ settings.archive_page_urls_by_date
       /\ settings.date_from <= settings.date_until) =>
        /\ \A i, j \in DOMAIN archive_page_urls :
              i < j => IF settings.go_reverse_in_archive
                       THEN StrLess(archive_page_urls[j], archive_page_urls[i])
                       ELSE StrLess(archive_page_urls[i], archive_page_urls[j])
        /\ Range(archive_page_urls) =
              {GenArchivePageUrlFromDate(DateOf(d), settings.archive_url_format) :
                  d \in settings.date_from..settings.date_until}
        /\ ScenarioA => archive_page_urls = << <<120, 47, 50, 48, 50, 48, 47, 48, 49>> >>
        /\ (settings.archive_url_format = DayTag /\ settings.date_from = 0
              /\ settings.date_until = 3 /\ ~settings.go_reverse_in_archive) =>
               archive_page_urls = << <<48, 49>>, <<48, 50>>, <<51, 48>>, <<51, 49>> >>

\* Scenario A was generated
C10_Witness == pc = "archive" /\ ScenarioA /\ Len(archive_page_urls) = 1

\* C11: the run fails with the configuration error exactly when neither
\* archive_page_urls_by_date nor archive_page_urls_by_id is set; when it fails, no
\* archive page and no article was fetched and good_urls, problematic_urls,
\* good_article_urls, problematic_article_urls and new_urls are empty.
C11_ConfigErrorIffNoMode ==
    /\ pc # "start" =>
          (pc = "error" <=>
              (~settings.archive_page_urls_by_date /\ ~settings.archive_page_urls_by_id))
    /\ pc = "error" =>
          /\ arch_fetches = << >> /\ art_fetches = << >>
          /\ good_urls = {} /\ problematic_urls = {}
          /\ good_article_urls = {} /\ problematic_article_urls = {}
          /\ new_urls = {}

\* C12: in every reachable state good_urls and problematic_urls are disjoint, and
\* good_article_urls and problematic_article_urls are disjoint, whatever the
\* outcome of each fetch is (a fetch of an URL may succeed at one attempt and fail
\* at another).
C12_GoodProblematicDisjoint ==
    /\ good_urls \cap problematic_urls = {}
    /\ good_article_urls \cap problematic_article_urls = {}

\* C13: at every iteration of the drain, the URLs that are reported as true new
\* URLs and handed to process_urls are, at that moment, in none of
\* good_article_urls, problematic_article_urls, good_urls, problematic_urls and
\* known_article_urls.
C13_DrainHandsOnlyUnclassified ==
    pc = "drain" => new_urls \cap AllClassified = {}

\* C14: the URLs that in-article links reach being finitely many, every call of
\* download_gathered_new_urls returns: after finitely many iterations new_urls is
\* empty at the test of the loop.
C14_DrainTerminates == (pc = "recheck") ~> (pc = "done")

\* a drain has returned after it fetched both articles that no archive page lists
C14_Witness ==
    /\ pc = "done"
    /\ drain_calls = 1
    /\ {OrphanURL, OtherOrphanURL} \subseteq DOMAIN art_fetches

\* C15: when the fetch of an archive page fails, the page URL is in
\* problematic_urls (and in good_urls only if an earlier fetch of it succeeded), no
\* article URL is yielded for it, the next page is not asked for and the walk of
\* that base URL has stopped; the other base URLs are still walked: the archive
\* iterator is exhausted only when every base URL was fetched.
C15_ArchiveFetchFailure ==
    /\ (~IsNone(last_page.url) /\ ~last_page.ok) =>
          /\ The(last_page.url) \in problematic_urls
          /\ The(last_page.url) \in good_urls => Count(arch_fetches, The(last_page.url)) = 2
          /\ article_urls = << >>
          /\ last_page.urls = << >>
          /\ WalkStopped
    /\ pc \in {"recheck", "drain", "drain_process", "done"} =>
          /\ base_idx = Len(archive_page_urls)
          /\ \A i \in DOMAIN archive_page_urls : archive_page_urls[i] \in DOMAIN arch_fetches

\* the fetch of the first of two base URLs failed and the second base URL was fetched
C15_Witness ==
    /\ Len(archive_page_urls) = 2
    /\ archive_page_urls[1] \in problematic_urls
    /\ base_idx = 2
    /\ last_page.ok
    /\ last_page.url = Some(archive_page_urls[2])

\* the article URLs of the last archive page that process_urls has been handed
HandedOfLastPage ==
    {last_page.urls[i] : i \in 1..(Len(last_page.urls) - Len(article_urls))}

\* C16: when the fetch of an article fails, the URL is added to
\* problematic_article_urls and to no other set, the converter is not called and
\* nothing is added to new_urls; the run goes on: it raises nothing, and every
\* article URL the walk has yielded was fetched, then or (a duplicate) before.
C16_ArticleFetchFailure ==
    [][ /\ (last'.outcome = "failed" /\ art_fetches' # art_fetches) =>
              /\ problematic_article_urls' =
                     problematic_article_urls \cup {The(last'.url)}
              /\ ~last'.converted
              /\ UNCHANGED <<good_article_urls, new_urls, discovered, good_urls,
                             problematic_urls, known_article_urls>>
        /\ pc' = "error" => art_fetches' = << >>
        /\ (pc' = "archive" /\ last_page'.ok) =>
              HandedOfLastPage' \subseteq DOMAIN art_fetches'
      ]_vars

\* the fetch of an article failed and the next article URL of the walk was fetched
C16_Witness ==
    /\ pc = "archive"
    /\ problematic_article_urls # {}
    /\ last.outcome = "good"
    /\ The(last.url) \in Range(last_page.urls)
    /\ The(last.url) \notin problematic_article_urls

\* the state in which the walker fetches its next page
AboutToFetch == pc = "archive" /\ article_urls = << >> /\ ~IsNone(archive_page_next_page_url)

\* C17: the base URLs are walked in the order of the list, a walk beginning only
\* when the walk before it has stopped and its article URLs are processed; the page
\* counter of a walk starts at min_pagenum and grows by exactly 1 with every page
\* fetched, so that the pagenum pages fetched for a base URL are base+min_pagenum,
\* base+(min_pagenum+1), ... in this order.
C17_TraversalOrder ==
    [][ /\ base_idx' # base_idx =>
              /\ WalkStopped /\ article_urls = << >>
              /\ base_idx' = base_idx + 1
              /\ archive_page_next_page_url' = Some(archive_page_urls[base_idx'])
              /\ page_num' = settings.min_pagenum
              /\ walk_log' = << >>
        /\ (AboutToFetch /\ page_num < HistoryCap) =>
              /\ page_num' = page_num + 1
              /\ page_num' = settings.min_pagenum + Len(walk_log')
              /\ walk_log'[1] = archive_page_urls[base_idx]
              /\ base_idx' = base_idx
        /\ ReadsPagenum(settings) =>
              \A i \in 2..Len(walk_log') :
                 walk_log'[i] = archive_page_urls[base_idx']
                                   \o FormatInt(settings.min_pagenum + i - 2)
      ]_vars

\* a pagenum walk from min_pagenum = 1 has fetched the base URL and two pagenum pages
C17_Witness ==
    /\ ReadsPagenum(settings)
    /\ settings.min_pagenum = 1
    /\ base_idx = 1
    /\ walk_log = <<archive_page_urls[1], archive_page_urls[1] \o <<49>>,
                    archive_page_urls[1] \o <<50>> >>
    /\ page_num = 4

C19_NoDiscoveredUnclassified ==
    pc = "done" => (new_urls = {} /\ discovered \subseteq AllClassified)

\* the run has returned after the walk yielded an article URL and a link led to an
\* article that no archive page lists
C19_Witness ==
    /\ pc = "done"
    /\ OrphanURL \in discovered
    /\ discovered \cap ArticleURLs # {}

\* C20: an archive page is fetched only when every article URL of the page fetched
\* before it is processed (fetched, or skipped as a duplicate); the drain begins
\* only when the walk of the last base URL has stopped and its article URLs are
\* processed, and from then on no archive page is fetched: good_urls and
\* problematic_urls do not change during the drain.
C20_LazyInterleaving ==
    [][ /\ (good_urls' # good_urls \/ problematic_urls' # problematic_urls
               \/ arch_fetches' # arch_fetches) =>
              /\ pc = "archive" /\ pc' = "archive"
              /\ article_urls = << >>
              /\ Range(last_page.urls) \subseteq DOMAIN art_fetches
        /\ (pc = "archive" /\ pc' # "archive") =>
              /\ pc' = "recheck"
              /\ base_idx = Len(archive_page_urls)
              /\ WalkStopped
              /\ article_urls = << >>
              /\ \A i \in DOMAIN archive_page_urls : archive_page_urls[i] \in DOMAIN arch_fetches
        /\ pc \in {"recheck", "drain", "drain_process", "done"} =>
              /\ pc' \in {"recheck", "drain", "drain_process", "done"}
              /\ UNCHANGED <<good_urls, problematic_urls, arch_fetches>>
      ]_vars

\* the drain fetches an article after the walks of two base URLs
C20_Witness ==
    /\ pc = "drain_process"
    /\ Len(archive_page_urls) = 2
    /\ last.outcome = "good"
    /\ The(last.url) \in orphans
=============================================================================
